---- MODULE Spec2Model ----
(***************************************************************************)
(* Model of project.go: the paginated fetch of GitLab projects             *)
(* (GetRepositories) with the nested per-project fetch of merge requests   *)
(* (GetMergeRequests).                                                     *)
(*                                                                         *)
(* A Go string is a sequence of one-character strings ("abc" is            *)
(* <<"a","b","c">>, "" is <<>>).  The value of response.Header[key] is a   *)
(* sequence of strings: <<>> when the header is absent (a nil slice),      *)
(* <<s>> when it is present once with value s.                             *)
(*                                                                         *)
(* The upstream is the environment: it answers every request with a        *)
(* transport error, an undecodable body, or a decodable page with any      *)
(* X-Next-Page header.  requests/responses record the traffic of the       *)
(* current invocation of GetRepositories.                                  *)
(***************************************************************************)
EXTENDS Integers, Sequences, FiniteSets, TLC

VARIABLES
    pc,             \* control state of GetRepositories
    projects,       \* GetRepositories: projects (line 121)
    page,           \* GetRepositories: page (line 122)
    projectsInPage, \* GetRepositories: projectsInPage (line 134)
    header,         \* GetRepositories: response.Header["X-Next-Page"] of the page being processed
    i,              \* GetRepositories: range index of line 140 (0-based)
    mpc,            \* control state of the running GetMergeRequests call
    receiver,       \* GetMergeRequests: the value receiver `project` (a copy)
    merge_requests, \* GetMergeRequests: merge_requests (line 78)
    mpage,          \* GetMergeRequests: page (line 79)
    requests,       \* http.Get calls issued in this invocation, in order
    responses,      \* outcomes received for them, in order
    run,            \* number of GetMergeRequests calls started in this invocation
    polled,         \* an earlier invocation of GetRepositories has returned
    subject,        \* PrometheusStats: the value receiver `project`
    stats           \* PrometheusStats: stats (line 55)

vars == <<pc, projects, page, projectsInPage, header, i, mpc, receiver,
          merge_requests, mpage, requests, responses, run, polled,
          subject, stats>>

outerVars == <<projects, page, projectsInPage, header, i>>
innerVars == <<receiver, merge_requests, mpage>>
statsVars == <<subject, stats>>
fetchVars == <<pc, outerVars, mpc, innerVars, requests, responses, run, polled>>

(***************************************************************************)
(* Bounds                                                                  *)
(***************************************************************************)
MaxRequests == 4    \* http.Get calls per invocation of GetRepositories
MaxPathLen == 3     \* characters of a project's path_with_namespace
MaxMergeRequests == 2   \* merge requests of a rendered project

(***************************************************************************)
(* Upstream data                                                           *)
(***************************************************************************)
NoMergeRequests == <<>>

Proj(id, mrs) == [Id |-> id, MergeRequests |-> mrs]

\* Decoded bodies of a project page.  The MergeRequests field has no json
\* tag, so a body can carry a value for it.
ProjectBodies ==
    { <<>>,
      <<Proj(1, NoMergeRequests)>>,
      <<Proj(2, <<"mr0">>)>>,
      <<Proj(1, NoMergeRequests), Proj(2, NoMergeRequests)>> }

\* Decoded bodies of a merge-request page.
MergeRequestBodies == { <<>>, <<"mr1">>, <<"mr2", "mr3">> }

\* Values of the X-Next-Page header: absent, "", "abc", "0", "-3", "2", "3".
NextPageHeaders ==
    { <<>>,
      << <<>> >>,
      << <<"a", "b", "c">> >>,
      << <<"0">> >>,
      << <<"-", "3">> >>,
      << <<"2">> >>,
      << <<"3">> >> }

NoHeader == <<>>

\* Value of the receiver while no call of GetMergeRequests is running.
NoReceiver == Proj(0, NoMergeRequests)

TransportError == [kind |-> "transport_error", items |-> <<>>, header |-> NoHeader]
DecodeError(h) == [kind |-> "decode_error", items |-> <<>>, header |-> h]
Page(items, h) == [kind |-> "ok", items |-> items, header |-> h]

\* Everything the upstream can answer to a request for a page of `bodies`.
Outcomes(bodies) ==
    {TransportError, DecodeError(NoHeader)}
        \cup { Page(b, h) : b \in bodies, h \in NextPageHeaders }

(***************************************************************************)
(* strconv.Atoi                                                            *)
(***************************************************************************)
Digits == <<"0", "1", "2", "3", "4", "5", "6", "7", "8", "9">>

IsDigit(c) == \E d \in 1..10 : Digits[d] = c

DigitVal(c) == (CHOOSE d \in 1..10 : Digits[d] = c) - 1

RECURSIVE DecimalValue(_)
DecimalValue(s) ==
    IF s = <<>> THEN 0
    ELSE 10 * DecimalValue(SubSeq(s, 1, Len(s) - 1)) + DigitVal(s[Len(s)])

\* Decimal digits of the largest int (2^63 - 1) and of the magnitude of the
\* smallest one (2^63).
MaxIntDigits == <<9, 2, 2, 3, 3, 7, 2, 0, 3, 6, 8, 5, 4, 7, 7, 5, 8, 0, 7>>
MinIntDigits == <<9, 2, 2, 3, 3, 7, 2, 0, 3, 6, 8, 5, 4, 7, 7, 5, 8, 0, 8>>

RECURSIVE Significant(_)
Significant(s) ==
    IF Len(s) > 1 /\ s[1] = "0" THEN Significant(Tail(s)) ELSE s

\* The digit string s denotes a number greater than the one of limit.
Exceeds(s, limit) ==
    LET d == Significant(s)
    IN  \/ Len(d) > Len(limit)
        \/ /\ Len(d) = Len(limit)
           /\ \E k \in 1..Len(d) :
                /\ DigitVal(d[k]) > limit[k]
                /\ \A j \in 1..(k - 1) : DigitVal(d[j]) = limit[j]

\* strconv.Atoi(s): an optional sign followed by at least one decimal digit,
\* within the range of a 64-bit int; anything else is an error.
Atoi(s) ==
    LET signed == Len(s) > 0 /\ s[1] \in {"+", "-"}
        body == IF signed THEN Tail(s) ELSE s
        wellFormed == Len(body) > 0 /\ \A k \in 1..Len(body) : IsDigit(body[k])
        neg == signed /\ s[1] = "-"
    IN  IF ~wellFormed THEN [ok |-> FALSE, val |-> 0]
        ELSE IF Exceeds(body, IF neg THEN MinIntDigits ELSE MaxIntDigits)
        THEN [ok |-> FALSE, val |-> 0]
        ELSE [ok |-> TRUE,
              val |-> IF neg THEN 0 - DecimalValue(body) ELSE DecimalValue(body)]

(***************************************************************************)
(* Reading the continuation signal                                         *)
(***************************************************************************)
\* Faulty variant: an empty signal restarts the pagination at page 1.
MergeRequestsNextPageRefetch(h) ==
    IF Len(h) = 0 THEN [to |-> "panic", page |-> 0]
    ELSE IF h[1] = <<>> THEN [to |-> "fetch", page |-> 1]
    ELSE IF Atoi(h[1]).ok THEN [to |-> "fetch", page |-> Atoi(h[1]).val]
    ELSE [to |-> "fatal", page |-> 0]

\* GetMergeRequests, lines 101-108: what the loop does after appending a page.
MergeRequestsNextPage(h) ==
    IF Len(h) = 0 THEN [to |-> "panic", page |-> 0]
    ELSE IF h[1] = <<>> THEN [to |-> "return", page |-> 0]
    ELSE IF Atoi(h[1]).ok THEN [to |-> "fetch", page |-> Atoi(h[1]).val]
    ELSE [to |-> "fatal", page |-> 0]

\* Faulty variant: a signal that is not an integer ends the loop like an
\* empty one.
RepositoriesNextPageLenient(h) ==
    IF Len(h) = 0 THEN [to |-> "panic", page |-> 0]
    ELSE IF h[1] = <<>> THEN [to |-> "return", page |-> 0]
    ELSE IF Atoi(h[1]).ok THEN [to |-> "fetch", page |-> Atoi(h[1]).val]
    ELSE [to |-> "return", page |-> 0]

\* GetRepositories, lines 149-156.
RepositoriesNextPage(h) ==
    IF Len(h) = 0 THEN [to |-> "panic", page |-> 0]
    ELSE IF h[1] = <<>> THEN [to |-> "return", page |-> 0]
    ELSE IF Atoi(h[1]).ok THEN [to |-> "fetch", page |-> Atoi(h[1]).val]
    ELSE [to |-> "fatal", page |-> 0]

\* Faulty variant: the merge requests are added to those the project
\* already carries.
SetMergeRequestsAppend(ps, k, mergeRequests) ==
    [ps EXCEPT ![k].MergeRequests = @ \o mergeRequests]

\* Faulty variant: the merge requests are attached to every project of the
\* slice.
SetMergeRequestsShared(ps, k, mergeRequests) ==
    [j \in 1..Len(ps) |-> [ps[j] EXCEPT !.MergeRequests = mergeRequests]]

\* Project.SetMergeRequests applied to element k of a slice of projects.
SetMergeRequests(ps, k, mergeRequests) ==
    [ps EXCEPT ![k].MergeRequests = mergeRequests]

(***************************************************************************)
(* PrometheusStats                                                         *)
(*                                                                         *)
(* The text is a Go string, a sequence of characters; the literal parts    *)
(* of the format strings of lines 56-68 are spelled out below.             *)
(***************************************************************************)
StarsMetric ==
    <<"g", "i", "t", "l", "a", "b", "_", "p", "r", "o", "j", "e", "c", "t",
      "_", "s", "t", "a", "r", "s">>

ForksMetric ==
    <<"g", "i", "t", "l", "a", "b", "_", "p", "r", "o", "j", "e", "c", "t",
      "_", "f", "o", "r", "k", "s">>

CommitCountMetric ==
    <<"g", "i", "t", "l", "a", "b", "_", "p", "r", "o", "j", "e", "c", "t",
      "_", "c", "o", "m", "m", "i", "t", "_", "c", "o", "u", "n", "t">>

StorageSizeMetric ==
    <<"g", "i", "t", "l", "a", "b", "_", "p", "r", "o", "j", "e", "c", "t",
      "_", "s", "t", "o", "r", "a", "g", "e", "_", "s", "i", "z", "e">>

RepositorySizeMetric ==
    <<"g", "i", "t", "l", "a", "b", "_", "p", "r", "o", "j", "e", "c", "t",
      "_", "r", "e", "p", "o", "s", "i", "t", "o", "r", "y", "_", "s", "i",
      "z", "e">>

LfsObjectSizeMetric ==
    <<"g", "i", "t", "l", "a", "b", "_", "p", "r", "o", "j", "e", "c", "t",
      "_", "l", "f", "s", "_", "o", "b", "j", "e", "c", "t", "_", "s", "i",
      "z", "e">>

JobArtifactsSizeMetric ==
    <<"g", "i", "t", "l", "a", "b", "_", "p", "r", "o", "j", "e", "c", "t",
      "_", "j", "o", "b", "_", "a", "r", "t", "i", "f", "a", "c", "t", "s",
      "_", "s", "i", "z", "e">>

MergeRequestMetric ==
    <<"g", "i", "t", "l", "a", "b", "_", "p", "r", "o", "j", "e", "c", "t",
      "_", "m", "e", "r", "g", "e", "_", "r", "e", "q", "u", "e", "s", "t">>

LastActivityMetric ==
    <<"g", "i", "t", "l", "a", "b", "_", "p", "r", "o", "j", "e", "c", "t",
      "_", "l", "a", "s", "t", "_", "a", "c", "t", "i", "v", "i", "t", "y">>

RepoLabel ==
    <<"{", "r", "e", "p", "o", "=", "\"">>

StateLabel ==
    <<"\"", ",", " ", "s", "t", "a", "t", "e", "=", "\"">>

MergeStatusLabel ==
    <<"\"", ",", " ", "m", "e", "r", "g", "e", "_", "s", "t", "a", "t",
      "u", "s", "=", "\"">>

TargetBranchLabel ==
    <<"\"", ",", " ", "t", "a", "r", "g", "e", "t", "_", "b", "r", "a",
      "n", "c", "h", "=", "\"">>

EndLabels ==
    <<"\"", "}", " ">>

\* The decimal representation of a natural number.
RECURSIVE DecimalString(_)
DecimalString(n) ==
    IF n < 10 THEN <<Digits[n + 1]>>
    ELSE DecimalString(n \div 10) \o <<Digits[(n % 10) + 1]>>

\* The verb %d applied to an int.
FormatInt(n) ==
    IF n < 0 THEN <<"-">> \o DecimalString(0 - n) ELSE DecimalString(n)

\* Faulty variant: only the first "/" is replaced.
RECURSIVE NormalizeFirst(_)
NormalizeFirst(s) ==
    IF s = <<>> THEN <<>>
    ELSE IF s[1] = "/" THEN <<"_", "_", "_">> \o Tail(s)
    ELSE <<s[1]>> \o NormalizeFirst(Tail(s))

\* Line 54: regexp.MustCompile(`\/`).ReplaceAllString(s, "___").
RECURSIVE Normalize(_)
Normalize(s) ==
    IF s = <<>> THEN <<>>
    ELSE (IF s[1] = "/" THEN <<"_", "_", "_">> ELSE <<s[1]>>)
            \o Normalize(Tail(s))

\* Lines 56-62 and 68: one Sprintf appending "\n<metric>{repo=\"<path>\"} <n>".
CounterLine(text, metric, path, n) ==
    text \o <<"\n">> \o metric \o RepoLabel \o path \o EndLabels \o FormatInt(n)

\* Line 65: the Sprintf of one merge request.
MergeRequestLine(text, path, mergeRequest) ==
    text \o <<"\n">> \o MergeRequestMetric \o RepoLabel \o path
         \o StateLabel \o mergeRequest.State
         \o MergeStatusLabel \o mergeRequest.MergeStatus
         \o TargetBranchLabel \o mergeRequest.TargetBranch
         \o EndLabels \o <<"1">>

\* Lines 64-66: the range loop over project.MergeRequests.
RECURSIVE MergeRequestLines(_, _, _)
MergeRequestLines(text, path, mergeRequests) ==
    IF mergeRequests = <<>> THEN text
    ELSE MergeRequestLines(MergeRequestLine(text, path, mergeRequests[1]),
                           path, Tail(mergeRequests))

\* Faulty variant: the last-activity line is written before the merge
\* requests.
PrometheusStatsActivityFirst(project) ==
    LET path == Normalize(project.PathWithNamespace)
        s0 == <<>>
        s1 == CounterLine(s0, StarsMetric, path, project.StarCount)
        s2 == CounterLine(s1, ForksMetric, path, project.ForkCount)
        s3 == CounterLine(s2, CommitCountMetric, path, project.Statistics.CommitCount)
        s4 == CounterLine(s3, StorageSizeMetric, path, project.Statistics.StorageSize)
        s5 == CounterLine(s4, RepositorySizeMetric, path, project.Statistics.RepositorySize)
        s6 == CounterLine(s5, LfsObjectSizeMetric, path, project.Statistics.LfsObjectSize)
        s7 == CounterLine(s6, JobArtifactsSizeMetric, path, project.Statistics.JobArtifactsSize)
        s8 == CounterLine(s7, LastActivityMetric, path, project.LastActivityAt)
    IN  MergeRequestLines(s8, path, project.MergeRequests)

\* Lines 53-70.  LastActivityAt is kept as its Unix time.
PrometheusStats(project) ==
    LET path == Normalize(project.PathWithNamespace)
        s0 == <<>>
        s1 == CounterLine(s0, StarsMetric, path, project.StarCount)
        s2 == CounterLine(s1, ForksMetric, path, project.ForkCount)
        s3 == CounterLine(s2, CommitCountMetric, path, project.Statistics.CommitCount)
        s4 == CounterLine(s3, StorageSizeMetric, path, project.Statistics.StorageSize)
        s5 == CounterLine(s4, RepositorySizeMetric, path, project.Statistics.RepositorySize)
        s6 == CounterLine(s5, LfsObjectSizeMetric, path, project.Statistics.LfsObjectSize)
        s7 == CounterLine(s6, JobArtifactsSizeMetric, path, project.Statistics.JobArtifactsSize)
        s8 == MergeRequestLines(s7, path, project.MergeRequests)
    IN  CounterLine(s8, LastActivityMetric, path, project.LastActivityAt)

(***************************************************************************)
(* Projects handed to PrometheusStats                                      *)
(***************************************************************************)
RECURSIVE SeqsUpTo(_, _)
\* The sequences over S of length at most n.
SeqsUpTo(S, n) ==
    IF n = 0 THEN {<<>>}
    ELSE SeqsUpTo(S, n - 1)
            \cup { Append(t, x) : t \in { u \in SeqsUpTo(S, n - 1) : Len(u) = n - 1 },
                                  x \in S }

PathAlphabet == {"a", "/", "_"}

Paths == SeqsUpTo(PathAlphabet, MaxPathLen)

Opened ==
    <<"o", "p", "e", "n", "e", "d">>

Merged ==
    <<"m", "e", "r", "g", "e", "d">>

CanBeMerged ==
    <<"c", "a", "n", "_", "b", "e", "_", "m", "e", "r", "g", "e", "d">>

CannotBeMerged ==
    <<"c", "a", "n", "n", "o", "t", "_", "b", "e", "_", "m", "e", "r", "g",
      "e", "d">>

MainBranch ==
    <<"m", "a", "i", "n">>

ReleaseBranch ==
    <<"r", "e", "l", "e", "a", "s", "e", "/", "1">>

DecodedMergeRequests ==
    { [State |-> Opened, MergeStatus |-> CanBeMerged, TargetBranch |-> MainBranch],
      [State |-> Merged, MergeStatus |-> CannotBeMerged, TargetBranch |-> ReleaseBranch] }

Subject(path, stars, mergeRequests, lastActivity) ==
    [PathWithNamespace |-> path,
     StarCount |-> stars,
     ForkCount |-> 1,
     Statistics |-> [CommitCount |-> 120, StorageSize |-> 4096,
                     RepositorySize |-> 2048, LfsObjectSize |-> 0,
                     JobArtifactsSize |-> 7],
     MergeRequests |-> mergeRequests,
     LastActivityAt |-> lastActivity]

Subjects ==
    { Subject(path, stars, mrs, at) :
        path \in Paths, stars \in {0, 5},
        mrs \in SeqsUpTo(DecodedMergeRequests, MaxMergeRequests),
        at \in {0 - 1, 1500000000} }

\* Value of subject while PrometheusStats is not in use.
NoSubject == Subject(<<>>, 0, <<>>, 0)

(***************************************************************************)
(* Initial state: GetRepositories has just been entered                    *)
(***************************************************************************)
Init ==
    /\ pc = "get"
    /\ projects = <<>>
    /\ page = 1
    /\ projectsInPage = <<>>
    /\ header = NoHeader
    /\ i = 0
    /\ mpc = "idle"
    /\ receiver = NoReceiver
    /\ merge_requests = <<>>
    /\ mpage = 1
    /\ requests = <<>>
    /\ responses = <<>>
    /\ run = 0
    /\ polled = FALSE
    /\ subject = NoSubject
    /\ stats = <<>>

(***************************************************************************)
(* GetRepositories                                                         *)
(***************************************************************************)
\* Lines 126-128: build the URL of the project page and issue http.Get.
RepoGet ==
    /\ pc = "get"
    /\ Len(requests) < MaxRequests
    /\ requests' = Append(requests,
                      [res |-> "projects", id |-> 0, page |-> page, run |-> 0])
    /\ pc' = "wait"
    /\ UNCHANGED <<outerVars, mpc, innerVars, responses, run, polled, statsVars>>

\* Faulty variant: the page is appended to the accumulator as soon as it is
\* decoded, before the merge requests of its projects are fetched.
RepoRecvAppendsEarly ==
    /\ pc = "wait"
    /\ \E r \in Outcomes(ProjectBodies) :
        /\ responses' = Append(responses, r)
        /\ IF r.kind = "ok"
           THEN /\ projectsInPage' = r.items
                /\ projects' = projects \o r.items
                /\ header' = r.header
                /\ i' = 0
                /\ pc' = "range"
           ELSE /\ pc' = "fatal"
                /\ UNCHANGED <<projects, projectsInPage, header, i>>
    /\ UNCHANGED <<page, mpc, innerVars, requests, run, polled, statsVars>>

\* Lines 128-139: http.Get returns; the body is decoded into projectsInPage.
RepoRecv ==
    /\ pc = "wait"
    /\ \E r \in Outcomes(ProjectBodies) :
        /\ responses' = Append(responses, r)
        /\ IF r.kind = "ok"
           THEN /\ projectsInPage' = r.items
                /\ header' = r.header
                /\ i' = 0
                /\ pc' = "range"
           ELSE /\ pc' = "fatal"
                /\ UNCHANGED <<projectsInPage, header, i>>
    /\ UNCHANGED <<projects, page, mpc, innerVars, requests, run, polled, statsVars>>

\* Faulty variant: the range loop hands out the projects of a page from the
\* last one to the first.
CallGetMergeRequestsReverse ==
    /\ pc = "range"
    /\ i < Len(projectsInPage)
    /\ receiver' = projectsInPage[Len(projectsInPage) - i]
    /\ merge_requests' = <<>>
    /\ mpage' = 1
    /\ mpc' = "get"
    /\ pc' = "call"
    /\ run' = run + 1
    /\ UNCHANGED <<outerVars, requests, responses, polled, statsVars>>

\* Faulty variant: the callee starts from the merge requests the project
\* already carries.
CallGetMergeRequestsKeep ==
    /\ pc = "range"
    /\ i < Len(projectsInPage)
    /\ receiver' = projectsInPage[i + 1]
    /\ merge_requests' = projectsInPage[i + 1].MergeRequests
    /\ mpage' = 1
    /\ mpc' = "get"
    /\ pc' = "call"
    /\ run' = run + 1
    /\ UNCHANGED <<outerVars, requests, responses, polled, statsVars>>

\* Lines 140-141 and 77-79: the range loop calls GetMergeRequests on
\* projectsInPage[i]; the callee starts with an empty slice and page 1.
CallGetMergeRequests ==
    /\ pc = "range"
    /\ i < Len(projectsInPage)
    /\ receiver' = projectsInPage[i + 1]
    /\ merge_requests' = <<>>
    /\ mpage' = 1
    /\ mpc' = "get"
    /\ pc' = "call"
    /\ run' = run + 1
    /\ UNCHANGED <<outerVars, requests, responses, polled, statsVars>>

\* Faulty variant: the range loop does not advance.
AttachNoAdvance ==
    /\ pc = "call"
    /\ mpc = "return"
    /\ projectsInPage' = SetMergeRequests(projectsInPage, i + 1, merge_requests)
    /\ i' = i
    /\ mpc' = "idle"
    /\ receiver' = NoReceiver
    /\ merge_requests' = <<>>
    /\ mpage' = 1
    /\ pc' = "range"
    /\ UNCHANGED <<projects, page, header, requests, responses, run, polled, statsVars>>

\* Lines 141-142: GetMergeRequests has returned; its result is attached to
\* projectsInPage[i] and the range loop advances.  The locals of the
\* finished call are gone.
Attach ==
    /\ pc = "call"
    /\ mpc = "return"
    /\ projectsInPage' = SetMergeRequests(projectsInPage, i + 1, merge_requests)
    /\ i' = i + 1
    /\ mpc' = "idle"
    /\ receiver' = NoReceiver
    /\ merge_requests' = <<>>
    /\ mpage' = 1
    /\ pc' = "range"
    /\ UNCHANGED <<projects, page, header, requests, responses, run, polled, statsVars>>

\* Faulty variant: the next page index is the current one plus one, whatever
\* the signal says.
RepoAdvanceIncrement ==
    /\ pc = "range"
    /\ i >= Len(projectsInPage)
    /\ projects' = projects \o projectsInPage
    /\ LET n == RepositoriesNextPage(header)
       IN  /\ pc' = CASE n.to = "return" -> "done"
                      [] n.to = "fetch" -> "get"
                      [] OTHER -> n.to
           /\ page' = IF n.to = "fetch" THEN page + 1 ELSE page
    /\ projectsInPage' = <<>>
    /\ header' = NoHeader
    /\ i' = 0
    /\ UNCHANGED <<mpc, innerVars, requests, responses, run, polled, statsVars>>

\* Faulty variant: a completed page is put in front of the accumulator.
RepoAdvancePrepend ==
    /\ pc = "range"
    /\ i >= Len(projectsInPage)
    /\ projects' = projectsInPage \o projects
    /\ LET n == RepositoriesNextPage(header)
       IN  /\ pc' = CASE n.to = "return" -> "done"
                      [] n.to = "fetch" -> "get"
                      [] OTHER -> n.to
           /\ page' = IF n.to = "fetch" THEN n.page ELSE page
    /\ projectsInPage' = <<>>
    /\ header' = NoHeader
    /\ i' = 0
    /\ UNCHANGED <<mpc, innerVars, requests, responses, run, polled, statsVars>>

\* Faulty variant: a completed page takes the place of the accumulator
\* instead of being appended to it.
RepoAdvanceOverwrite ==
    /\ pc = "range"
    /\ i >= Len(projectsInPage)
    /\ projects' = projectsInPage
    /\ LET n == RepositoriesNextPage(header)
       IN  /\ pc' = CASE n.to = "return" -> "done"
                      [] n.to = "fetch" -> "get"
                      [] OTHER -> n.to
           /\ page' = IF n.to = "fetch" THEN n.page ELSE page
    /\ projectsInPage' = <<>>
    /\ header' = NoHeader
    /\ i' = 0
    /\ UNCHANGED <<mpc, innerVars, requests, responses, run, polled, statsVars>>

\* Lines 145-156: the range loop is over; the page is appended and the
\* X-Next-Page header decides how the loop goes on.  projectsInPage and
\* response are per-iteration locals and end with the iteration.
RepoAdvance ==
    /\ pc = "range"
    /\ i >= Len(projectsInPage)
    /\ projects' = projects \o projectsInPage
    /\ LET n == RepositoriesNextPage(header)
       IN  /\ pc' = CASE n.to = "return" -> "done"
                      [] n.to = "fetch" -> "get"
                      [] OTHER -> n.to
           /\ page' = IF n.to = "fetch" THEN n.page ELSE page
    /\ projectsInPage' = <<>>
    /\ header' = NoHeader
    /\ i' = 0
    /\ UNCHANGED <<mpc, innerVars, requests, responses, run, polled, statsVars>>

\* Faulty variant: the accumulator survives from one invocation to the next.
PollKeepsProjects ==
    /\ pc = "done"
    /\ polled' = TRUE
    /\ pc' = "get"
    /\ projects' = projects
    /\ page' = 1
    /\ projectsInPage' = <<>>
    /\ header' = NoHeader
    /\ i' = 0
    /\ requests' = <<>>
    /\ responses' = <<>>
    /\ run' = 0
    /\ UNCHANGED <<mpc, innerVars, statsVars>>

\* Lines 120-122: the caller invokes GetRepositories again after a return.
Poll ==
    /\ pc = "done"
    /\ polled' = TRUE
    /\ pc' = "get"
    /\ projects' = <<>>
    /\ page' = 1
    /\ projectsInPage' = <<>>
    /\ header' = NoHeader
    /\ i' = 0
    /\ requests' = <<>>
    /\ responses' = <<>>
    /\ run' = 0
    /\ UNCHANGED <<mpc, innerVars, statsVars>>

(***************************************************************************)
(* GetMergeRequests                                                        *)
(***************************************************************************)
\* Faulty variant: a page is requested without waiting for the outcome of
\* the request before it.
MergeGetEager ==
    /\ mpc \in {"get", "wait"}
    /\ Len(requests) < MaxRequests
    /\ requests' = Append(requests,
                      [res |-> "merge_requests", id |-> receiver.Id,
                       page |-> mpage, run |-> run])
    /\ mpc' = "wait"
    /\ UNCHANGED <<pc, outerVars, innerVars, responses, run, polled, statsVars>>

\* Lines 83-85: build the URL from project.Id and page and issue http.Get.
MergeGet ==
    /\ mpc = "get"
    /\ Len(requests) < MaxRequests
    /\ requests' = Append(requests,
                      [res |-> "merge_requests", id |-> receiver.Id,
                       page |-> mpage, run |-> run])
    /\ mpc' = "wait"
    /\ UNCHANGED <<pc, outerVars, innerVars, responses, run, polled, statsVars>>

\* Faulty variant: every page received is written through to the project
\* of the caller's slice.
MergeRecvWritesThrough ==
    /\ mpc = "wait"
    /\ \E r \in Outcomes(MergeRequestBodies) :
        /\ responses' = Append(responses, r)
        /\ IF r.kind = "ok"
           THEN LET n == MergeRequestsNextPage(r.header)
                IN  /\ merge_requests' = merge_requests \o r.items
                    /\ projectsInPage' =
                            SetMergeRequests(projectsInPage, i + 1, merge_requests \o r.items)
                    /\ mpage' = IF n.to = "fetch" THEN n.page ELSE mpage
                    /\ mpc' = CASE n.to = "return" -> "return"
                                [] n.to = "fetch" -> "get"
                                [] OTHER -> "idle"
                    /\ pc' = IF n.to \in {"fatal", "panic"} THEN n.to ELSE pc
           ELSE /\ pc' = "fatal"
                /\ mpc' = "idle"
                /\ UNCHANGED <<merge_requests, mpage, projectsInPage>>
    /\ UNCHANGED <<projects, page, header, i, receiver, requests, run, polled, statsVars>>

\* Faulty variant: an item the accumulator already holds is not appended
\* again.
MergeRecvDedup ==
    /\ mpc = "wait"
    /\ \E r \in Outcomes(MergeRequestBodies) :
        /\ responses' = Append(responses, r)
        /\ IF r.kind = "ok"
           THEN LET n == MergeRequestsNextPage(r.header)
                    fresh == SelectSeq(r.items,
                                LAMBDA x : \A k \in 1..Len(merge_requests) :
                                                merge_requests[k] # x)
                IN  /\ merge_requests' = merge_requests \o fresh
                    /\ mpage' = IF n.to = "fetch" THEN n.page ELSE mpage
                    /\ mpc' = CASE n.to = "return" -> "return"
                                [] n.to = "fetch" -> "get"
                                [] OTHER -> "idle"
                    /\ pc' = IF n.to \in {"fatal", "panic"} THEN n.to ELSE pc
           ELSE /\ pc' = "fatal"
                /\ mpc' = "idle"
                /\ UNCHANGED <<merge_requests, mpage>>
    /\ UNCHANGED <<outerVars, receiver, requests, run, polled, statsVars>>

\* Faulty variant: a page is put in front of the accumulator.
MergeRecvPrepend ==
    /\ mpc = "wait"
    /\ \E r \in Outcomes(MergeRequestBodies) :
        /\ responses' = Append(responses, r)
        /\ IF r.kind = "ok"
           THEN LET n == MergeRequestsNextPage(r.header)
                IN  /\ merge_requests' = r.items \o merge_requests
                    /\ mpage' = IF n.to = "fetch" THEN n.page ELSE mpage
                    /\ mpc' = CASE n.to = "return" -> "return"
                                [] n.to = "fetch" -> "get"
                                [] OTHER -> "idle"
                    /\ pc' = IF n.to \in {"fatal", "panic"} THEN n.to ELSE pc
           ELSE /\ pc' = "fatal"
                /\ mpc' = "idle"
                /\ UNCHANGED <<merge_requests, mpage>>
    /\ UNCHANGED <<outerVars, receiver, requests, run, polled, statsVars>>

\* Faulty variant: a failed request ends the call with what it has so far.
MergeRecvSwallow ==
    /\ mpc = "wait"
    /\ \E r \in Outcomes(MergeRequestBodies) :
        /\ responses' = Append(responses, r)
        /\ IF r.kind = "ok"
           THEN LET n == MergeRequestsNextPage(r.header)
                IN  /\ merge_requests' = merge_requests \o r.items
                    /\ mpage' = IF n.to = "fetch" THEN n.page ELSE mpage
                    /\ mpc' = CASE n.to = "return" -> "return"
                                [] n.to = "fetch" -> "get"
                                [] OTHER -> "idle"
                    /\ pc' = IF n.to \in {"fatal", "panic"} THEN n.to ELSE pc
           ELSE /\ pc' = pc
                /\ mpc' = "return"
                /\ UNCHANGED <<merge_requests, mpage>>
    /\ UNCHANGED <<outerVars, receiver, requests, run, polled, statsVars>>

\* Lines 85-108: http.Get returns; the body is decoded and appended, and the
\* X-Next-Page header decides how the loop goes on.  log.Fatalf and a
\* run-time panic end the process, GetRepositories included.
MergeRecv ==
    /\ mpc = "wait"
    /\ \E r \in Outcomes(MergeRequestBodies) :
        /\ responses' = Append(responses, r)
        /\ IF r.kind = "ok"
           THEN LET n == MergeRequestsNextPage(r.header)
                IN  /\ merge_requests' = merge_requests \o r.items
                    /\ mpage' = IF n.to = "fetch" THEN n.page ELSE mpage
                    /\ mpc' = CASE n.to = "return" -> "return"
                                [] n.to = "fetch" -> "get"
                                [] OTHER -> "idle"
                    /\ pc' = IF n.to \in {"fatal", "panic"} THEN n.to ELSE pc
           ELSE /\ pc' = "fatal"
                /\ mpc' = "idle"
                /\ UNCHANGED <<merge_requests, mpage>>
    /\ UNCHANGED <<outerVars, receiver, requests, run, polled, statsVars>>

Next ==
    \/ RepoGet
    \/ RepoRecv
    \/ CallGetMergeRequests
    \/ MergeGet
    \/ MergeRecv
    \/ Attach
    \/ RepoAdvance
    \/ Poll

Spec == Init /\ [][Next]_vars

TypeOK ==
    /\ pc \in {"get", "wait", "range", "call", "done", "fatal", "panic"}
    /\ mpc \in {"idle", "get", "wait", "return"}
    /\ Len(requests) <= MaxRequests
    /\ Len(responses) <= Len(requests)
    /\ polled \in BOOLEAN

(***************************************************************************)
(* PrometheusStats on its own: any project, rendered once                  *)
(***************************************************************************)
InitStats ==
    /\ pc = "done"
    /\ projects = <<>>
    /\ page = 1
    /\ projectsInPage = <<>>
    /\ header = NoHeader
    /\ i = 0
    /\ mpc = "idle"
    /\ receiver = NoReceiver
    /\ merge_requests = <<>>
    /\ mpage = 1
    /\ requests = <<>>
    /\ responses = <<>>
    /\ run = 0
    /\ polled = FALSE
    /\ subject \in Subjects
    /\ stats = <<>>

\* Lines 53-70: one call of PrometheusStats on subject.
Render ==
    /\ stats = <<>>
    /\ stats' = PrometheusStats(subject)
    /\ UNCHANGED <<fetchVars, subject>>

NextStats == Render

SpecStats == InitStats /\ [][NextStats]_vars

(***************************************************************************)
(* The traffic of one pagination                                           *)
(*                                                                         *)
(* Every request carries the pagination it belongs to: 0 for the project   *)
(* listing, k for the k-th call of GetMergeRequests of the invocation.     *)
(* Exchange n is request n together with response n.                       *)
(***************************************************************************)
EmptySignal == << <<>> >>

RECURSIVE ResponsesUpTo(_, _)
ResponsesUpTo(r, n) ==
    IF n = 0 THEN <<>>
    ELSE ResponsesUpTo(r, n - 1)
            \o (IF requests[n].run = r THEN <<responses[n]>> ELSE <<>>)

\* The responses received so far by pagination r, in order.
RunResponses(r) == ResponsesUpTo(r, Len(responses))

\* The requests issued so far by pagination r, in order.
RunRequests(r) == SelectSeq(requests, LAMBDA q : q.run = r)

RECURSIVE Flatten(_)
Flatten(rs) ==
    IF rs = <<>> THEN <<>> ELSE rs[1].items \o Flatten(Tail(rs))

\* The items of the pages pagination r has received, in page order.
Served(r) == Flatten(RunResponses(r))

Ids(ps) == [k \in 1..Len(ps) |-> ps[k].Id]

Pages(qs) == [k \in 1..Len(qs) |-> qs[k].page]

\* Pagination r was served N >= 1 decodable pages, page k announcing k+1
\* for k < N and the last one carrying an empty signal.
PaginationChain(r) ==
    LET rs == RunResponses(r)
    IN  /\ Len(rs) >= 1
        /\ \A k \in 1..Len(rs) :
            /\ rs[k].kind = "ok"
            /\ rs[k].header = IF k < Len(rs) THEN <<DecimalString(k + 1)>>
                              ELSE EmptySignal

\* Every call of GetMergeRequests so far was served a single page.
SinglePageMergeRequests ==
    \A r \in 1..run : Len(RunResponses(r)) = 1

(***************************************************************************)
(* C1: when a fetcher is served N pages chained 2, 3, ..., N, "" it has    *)
(* requested exactly the pages 1..N, once each and in increasing order,    *)
(* and it returns the concatenation of the N pages' items in page order.   *)
(***************************************************************************)
ChainFetchedInOrder ==
    /\ (mpc = "return" /\ PaginationChain(run)) =>
            /\ Pages(RunRequests(run)) = [k \in 1..Len(RunResponses(run)) |-> k]
            /\ merge_requests = Served(run)
    /\ (pc = "done" /\ PaginationChain(0) /\ SinglePageMergeRequests) =>
            /\ Pages(RunRequests(0)) = [k \in 1..Len(RunResponses(0)) |-> k]
            /\ Ids(projects) = Ids(Served(0))

\* Two chained project pages have been returned, each holding a project
\* with a single page of merge requests: the project of page 1 comes first.
ChainFetchedWitness ==
    /\ pc = "done"
    /\ PaginationChain(0)
    /\ SinglePageMergeRequests
    /\ Len(RunResponses(0)) = 2
    /\ Pages(RunRequests(0)) = <<1, 2>>
    /\ RunResponses(0)[1].items = <<Proj(1, NoMergeRequests)>>
    /\ RunResponses(0)[2].items = <<Proj(2, <<"mr0">>)>>
    /\ projects = <<Proj(1, <<"mr1">>), Proj(2, <<"mr2", "mr3">>)>>

(***************************************************************************)
(* Shapes of a response                                                    *)
(***************************************************************************)
HasEmptySignal(r) == r.kind = "ok" /\ r.header = EmptySignal

HasAbsentSignal(r) == r.kind = "ok" /\ r.header = <<>>

\* A value holding a character that is neither a decimal digit nor a sign
\* is not the decimal representation of any integer.
NotAnInteger(s) ==
    \E k \in 1..Len(s) : ~IsDigit(s[k]) /\ s[k] \notin {"+", "-"}

HasMalformedSignal(r) ==
    r.kind = "ok" /\ Len(r.header) > 0 /\ NotAnInteger(r.header[1])

\* Exchange n is the latest one of its pagination.
LastOfRun(n) ==
    \A k \in (n + 1)..Len(requests) : requests[k].run # requests[n].run

(***************************************************************************)
(* C2: a decoded page with an empty X-Next-Page ends its pagination: no    *)
(* request of the same pagination follows it, GetMergeRequests is at its   *)
(* return with the accumulator holding every page served, that one         *)
(* included, and GetRepositories, once the page's projects are processed,  *)
(* has returned every page served, that one included.                      *)
(***************************************************************************)
EmptySignalEndsPagination ==
    \A n \in 1..Len(responses) :
        HasEmptySignal(responses[n]) =>
            /\ LastOfRun(n)
            /\ (pc = "call" /\ requests[n].run = run) =>
                    /\ mpc = "return"
                    /\ merge_requests = Served(run)
            /\ requests[n].run = 0 =>
                    /\ pc \in {"range", "call", "done", "fatal", "panic"}
                    /\ pc = "done" => Ids(projects) = Ids(Served(0))

\* GetRepositories has returned after a second project page with an empty
\* signal that held a project.
EmptySignalWitness ==
    /\ pc = "done"
    /\ Len(RunResponses(0)) = 2
    /\ HasEmptySignal(RunResponses(0)[2])
    /\ Len(RunResponses(0)[2].items) = 1
    /\ Len(projects) = 1

(***************************************************************************)
(* C3: a decoded page without any X-Next-Page header is treated like one   *)
(* with an empty signal: the fetch never crashes on it.                    *)
(***************************************************************************)
AbsentSignalEndsPagination ==
    \A n \in 1..Len(responses) :
        HasAbsentSignal(responses[n]) =>
            /\ pc # "panic"
            /\ (pc = "call" /\ requests[n].run = run) =>
                    /\ mpc = "return"
                    /\ merge_requests = Served(run)

(***************************************************************************)
(* C4: a signal that is present, non-empty and not an integer is fatal:    *)
(* the fetch does not return and the pagination issues no further          *)
(* request.  For GetMergeRequests the signal is read on receipt, so the    *)
(* process is dead right after; for GetRepositories it is read once the    *)
(* page's projects are processed, so until then only merge-request         *)
(* requests can follow.                                                    *)
(***************************************************************************)
MalformedSignalIsFatal ==
    \A n \in 1..Len(responses) :
        HasMalformedSignal(responses[n]) =>
            /\ LastOfRun(n)
            /\ pc # "done"
            /\ requests[n].run > 0 => (pc = "fatal" /\ n = Len(requests))
            /\ requests[n].run = 0 => pc \in {"range", "call", "fatal", "panic"}
            /\ (requests[n].run = 0 /\ run = Len(Served(0))
                    /\ pc \notin {"range", "call"}
                    /\ \A k \in (n + 1)..Len(responses) : HasEmptySignal(responses[k]))
                => pc = "fatal"

\* GetRepositories died on "abc" after attaching a project's merge requests.
MalformedSignalWitness ==
    /\ pc = "fatal"
    /\ Len(responses) = 2
    /\ HasMalformedSignal(responses[1])
    /\ requests[1].run = 0
    /\ HasEmptySignal(responses[2])
    /\ projects # <<>>

(***************************************************************************)
(* Outcomes that end a poll cycle without a result                         *)
(***************************************************************************)
\* The response is a transport error, an undecodable body, or a page whose
\* signal is absent or not an integer.
IsFailure(r) ==
    \/ r.kind # "ok"
    \/ HasAbsentSignal(r)
    \/ HasMalformedSignal(r)

\* Pagination r was fetched to its end: its latest page has an empty signal.
FetchedToTheEnd(r) ==
    LET rs == RunResponses(r)
    IN  Len(rs) >= 1 /\ HasEmptySignal(rs[Len(rs)])

(***************************************************************************)
(* C5: all or nothing.  A collection returned by GetRepositories holds     *)
(* every project of every page visited, each with the result of its own    *)
(* merge-request pagination fetched to the end, and no request of the      *)
(* cycle failed; a failure inside a merge-request pagination ends the      *)
(* whole fetch on the spot, and after a failure of any request the cycle   *)
(* never returns.                                                          *)
(***************************************************************************)
AllOrNothing ==
    /\ pc = "done" =>
            /\ Len(responses) = Len(requests)
            /\ \A n \in 1..Len(responses) : ~IsFailure(responses[n])
            /\ Len(projects) = Len(Served(0))
            /\ run = Len(projects)
            /\ \A k \in 1..Len(projects) :
                    /\ FetchedToTheEnd(k)
                    /\ projects[k].MergeRequests = Served(k)
    /\ \A n \in 1..Len(responses) :
            IsFailure(responses[n]) =>
                /\ pc \in {"range", "call", "fatal", "panic"}
                /\ requests[n].run > 0 =>
                        (pc \in {"fatal", "panic"} /\ n = Len(requests))

\* The merge-request pagination of the second project of a page failed
\* after the first project had been completed: nothing is returned.
AllOrNothingWitness ==
    /\ pc = "fatal"
    /\ run = 2
    /\ Len(responses) = 3
    /\ FetchedToTheEnd(1)
    /\ responses[3].kind = "transport_error"
    /\ projects = <<>>

(***************************************************************************)
(* C6: nesting.  In a returned collection the projects are those of the    *)
(* project pages, in number and order; the k-th one carries exactly the    *)
(* pages, in order, that were served to the requests made for it, all of   *)
(* which name its own identifier; a project whose pages are empty carries  *)
(* the empty sequence.                                                     *)
(***************************************************************************)
NestingCorrect ==
    pc = "done" =>
        /\ Ids(projects) = Ids(Served(0))
        /\ \A q \in 1..Len(requests) :
                requests[q].res = (IF requests[q].run = 0 THEN "projects"
                                   ELSE "merge_requests")
        /\ \A k \in 1..Len(projects) :
                /\ \A q \in 1..Len(requests) :
                        requests[q].run = k => requests[q].id = projects[k].Id
                /\ projects[k].MergeRequests = Served(k)

\* Two projects of one page: the first got two merge requests, the second
\* none.
NestingWitness ==
    /\ pc = "done"
    /\ Ids(projects) = <<1, 2>>
    /\ Len(RunResponses(0)) = 1
    /\ projects[1].MergeRequests = <<"mr2", "mr3">>
    /\ projects[2].MergeRequests = <<>>

(***************************************************************************)
(* The page index of a request                                             *)
(***************************************************************************)
\* The exchanges of the pagination of request q that precede it.
Earlier(q) == { n \in 1..(q - 1) : requests[n].run = requests[q].run }

\* The exchange of the same pagination that immediately precedes request q.
Preceding(q) == CHOOSE n \in Earlier(q) : \A m \in Earlier(q) : m <= n

\* Request q asks for page 1 when it opens its pagination, and otherwise
\* for the integer its predecessor's signal denotes.
FollowsSignal(q) ==
    IF Earlier(q) = {} THEN requests[q].page = 1
    ELSE LET r == responses[Preceding(q)]
         IN  /\ r.kind = "ok"
             /\ Len(r.header) > 0
             /\ Atoi(r.header[1]).ok
             /\ requests[q].page = Atoi(r.header[1]).val

(***************************************************************************)
(* C7 as claimed: every request asks for a positive page, 1 for the first  *)
(* request of a pagination and the value of the preceding signal           *)
(* afterwards; a signal such as "0" or "-3" never becomes a page index.    *)
(***************************************************************************)
PageIndexPositive ==
    \A q \in 1..Len(requests) :
        FollowsSignal(q) /\ requests[q].page > 0

(***************************************************************************)
(* C7 as amended: every request asks for page 1 when it is the first of    *)
(* its pagination and otherwise for the integer that the signal of the     *)
(* preceding response of that pagination denotes, whatever its sign; a     *)
(* positive signal gives a positive page.                                  *)
(***************************************************************************)
PageIndexFollowsSignal ==
    /\ \A q \in 1..Len(requests) : FollowsSignal(q)
    /\ pc = "get" =>
            page = (IF RunResponses(0) = <<>> THEN 1
                    ELSE Atoi(RunResponses(0)[Len(RunResponses(0))].header[1]).val)
    /\ mpc = "get" =>
            mpage = (IF RunResponses(run) = <<>> THEN 1
                     ELSE Atoi(RunResponses(run)[Len(RunResponses(run))].header[1]).val)
    /\ \A q \in 1..Len(requests) :
            (Earlier(q) # {} /\ requests[q].page <= 0) =>
                responses[Preceding(q)].header[1][1] \in {"0", "-"}

\* GetMergeRequests has requested page -3 after the signal "-3".
PageIndexWitness ==
    /\ Len(requests) = 3
    /\ requests[2].run = 1 /\ requests[2].page = 1
    /\ responses[2].header = << <<"-", "3">> >>
    /\ requests[3].run = 1 /\ requests[3].page = 0 - 3

(***************************************************************************)
(* C8: a first page with no items and an empty signal ends the fetch       *)
(* after that single request with an empty result and no fatal state;      *)
(* for GetRepositories no merge-request request is made at all.            *)
(***************************************************************************)
EmptyPage == Page(<<>>, EmptySignal)

EmptyCollection ==
    /\ (Len(responses) >= 1 /\ responses[1] = EmptyPage) =>
            /\ pc \in {"range", "done"}
            /\ Len(requests) = 1
            /\ run = 0
            /\ projects = <<>>
            /\ pc = "range" => ENABLED RepoAdvance
    /\ \A r \in 1..run :
            (RunResponses(r) # <<>> /\ RunResponses(r)[1] = EmptyPage) =>
                /\ Len(RunRequests(r)) = 1
                /\ (r = run /\ Len(responses) = Len(requests)
                        /\ requests[Len(requests)].run = r) =>
                        /\ pc \in {"call", "range", "get", "done"}
                            \/ (pc \in {"fatal", "panic"} /\ mpc = "idle"
                                    /\ projectsInPage = <<>>)
                        /\ pc = "call" => (mpc = "return" /\ merge_requests = <<>>)
                        /\ pc = "range" =>
                                projectsInPage[i].MergeRequests = <<>>
                /\ (pc = "done" /\ r <= Len(projects)) =>
                        projects[r].MergeRequests = <<>>

\* A project whose decoded body carried a merge request was returned with
\* none, after a single empty merge-request page.
EmptyCollectionWitness ==
    /\ pc = "done"
    /\ Len(requests) = 2
    /\ responses[1].items = <<Proj(2, <<"mr0">>)>>
    /\ responses[2] = EmptyPage
    /\ projects = <<Proj(2, <<>>)>>

(***************************************************************************)
(* C10: every invocation starts afresh.  Before its first request an       *)
(* invocation of GetRepositories holds no project and is about to ask for  *)
(* page 1, and so does every call of GetMergeRequests for merge requests;  *)
(* what either one holds is what this invocation was served, so nothing    *)
(* of an earlier invocation is in a later result.                          *)
(***************************************************************************)
FreshStatePerCycle ==
    /\ requests = <<>> => (pc = "get" /\ projects = <<>> /\ page = 1 /\ run = 0)
    /\ (mpc = "get" /\ RunRequests(run) = <<>>) =>
            (merge_requests = <<>> /\ mpage = 1)
    /\ mpc \in {"get", "wait", "return"} => merge_requests = Served(run)
    /\ Len(projects) <= Len(Served(0))
    /\ \A k \in 1..Len(projects) :
            /\ projects[k].Id = Served(0)[k].Id
            /\ projects[k].MergeRequests = Served(k)
    /\ requests # <<>> => (requests[1].run = 0 /\ requests[1].page = 1)

\* The second invocation has returned a project with a merge request.
FreshStateWitness ==
    /\ polled
    /\ pc = "done"
    /\ Len(projects) = 1
    /\ projects[1].MergeRequests = <<"mr1">>

(***************************************************************************)
(* Termination                                                             *)
(*                                                                         *)
(* The code is sequential and every http.Get blocks until it has an        *)
(* outcome, so the step the program is at is eventually taken.             *)
(***************************************************************************)
SpecLive == Spec /\ WF_vars(Next)

Started == pc = "get" /\ requests = <<>>

\* Some request of the cycle failed.
Misbehaved == \E n \in 1..Len(responses) : IsFailure(responses[n])

\* The response announces a further page.
AnnouncesPage(r) == r.kind = "ok" /\ ~IsFailure(r) /\ ~HasEmptySignal(r)

\* The upstream has not ended its chains within the requests explored: the
\* request the program is about to issue is one it owes, the first page of
\* a project's merge requests or a page the latest response announced.
ChainCutShort ==
    /\ Len(requests) = MaxRequests
    /\ \/ /\ pc = "get"
          /\ AnnouncesPage(RunResponses(0)[Len(RunResponses(0))])
       \/ /\ pc = "call" /\ mpc = "get"
          /\ run <= Len(Served(0))
          /\ \/ RunResponses(run) = <<>>
             \/ AnnouncesPage(RunResponses(run)[Len(RunResponses(run))])

(***************************************************************************)
(* C9: an invocation of GetRepositories whose requests all succeed and     *)
(* decode, and whose signals end every chain with an empty signal,         *)
(* eventually returns; it stops nowhere else than at its return or at a    *)
(* fatal error.                                                            *)
(***************************************************************************)
FetchTerminates ==
    Started ~> (pc = "done" \/ Misbehaved \/ ChainCutShort)

\* A well-behaved cycle has returned: one project page and a two-page
\* merge-request listing.
FetchTerminatesWitness ==
    /\ pc = "done"
    /\ ~Misbehaved
    /\ Len(requests) = 3
    /\ Len(RunResponses(0)) = 1
    /\ Len(RunResponses(1)) = 2

(***************************************************************************)
(* Reading a metrics text back                                             *)
(***************************************************************************)
\* The position of the first occurrence of character c in s, or the one
\* past its end.
FirstIndex(s, c) ==
    IF \E k \in 1..Len(s) : s[k] = c
    THEN CHOOSE k \in 1..Len(s) : s[k] = c /\ \A j \in 1..(k - 1) : s[j] # c
    ELSE Len(s) + 1

\* The part of s before the first occurrence of character c.
UpToChar(s, c) == SubSeq(s, 1, FirstIndex(s, c) - 1)

\* The part of s after the first occurrence of character c.
AfterChar(s, c) == SubSeq(s, FirstIndex(s, c) + 1, Len(s))

Occurrences(s, c) == Cardinality({ k \in 1..Len(s) : s[k] = c })

\* The pieces of a text between its line breaks.
RECURSIVE SplitLines(_)
SplitLines(text) ==
    IF Occurrences(text, "\n") = 0 THEN <<text>>
    ELSE <<UpToChar(text, "\n")>> \o SplitLines(AfterChar(text, "\n"))

\* The lines of a text in which every line is introduced by a line break.
MetricLines(text) == Tail(SplitLines(text))

MetricName(line) == UpToChar(line, "{")

\* The quoted label values of a line, in order.
RECURSIVE QuotedValues(_)
QuotedValues(line) ==
    IF Occurrences(line, "\"") < 2 THEN <<>>
    ELSE LET opened == AfterChar(line, "\"")
         IN  <<UpToChar(opened, "\"")>> \o QuotedValues(AfterChar(opened, "\""))

RepoValue(line) == QuotedValues(line)[1]

\* The sample value of a line: what follows the closing brace and a blank.
SampleValue(line) == Tail(AfterChar(line, "}"))

(***************************************************************************)
(* C11: the repo label PrometheusStats writes is the path with every "/"   *)
(* replaced by "___": it holds no "/", it is two characters longer per     *)
(* "/" of the path, its other characters are those of the path in order,   *)
(* and normalizing it again leaves it unchanged.                           *)
(***************************************************************************)
PathNormalizationIdempotent ==
    stats # <<>> =>
        \A k \in 1..Len(MetricLines(stats)) :
            LET label == RepoValue(MetricLines(stats)[k])
                path == subject.PathWithNamespace
            IN  /\ Occurrences(label, "/") = 0
                /\ Len(label) = Len(path) + 2 * Occurrences(path, "/")
                /\ Occurrences(label, "a") = Occurrences(path, "a")
                /\ Occurrences(label, "_")
                        = Occurrences(path, "_") + 3 * Occurrences(path, "/")
                /\ Normalize(label) = label

\* A path with two "/" has been rendered.
PathNormalizationWitness ==
    /\ stats # <<>>
    /\ subject.PathWithNamespace = <<"/", "a", "/">>
    /\ RepoValue(MetricLines(stats)[1]) = <<"_", "_", "_", "a", "_", "_", "_">>

(***************************************************************************)
(* C17: for a project with m merge requests PrometheusStats writes 8 + m   *)
(* lines with one and the same repo label: stars, forks, commit count,     *)
(* storage size, repository size, LFS object size and job-artifacts size   *)
(* with their values, then one line per merge request, in sequence order,  *)
(* labelled with its state, merge status and target branch, then the       *)
(* last-activity line.                                                     *)
(***************************************************************************)
CounterMetrics ==
    <<StarsMetric, ForksMetric, CommitCountMetric, StorageSizeMetric,
      RepositorySizeMetric, LfsObjectSizeMetric, JobArtifactsSizeMetric>>

CounterValues(project) ==
    <<project.StarCount, project.ForkCount, project.Statistics.CommitCount,
      project.Statistics.StorageSize, project.Statistics.RepositorySize,
      project.Statistics.LfsObjectSize, project.Statistics.JobArtifactsSize>>

RenderingShape ==
    stats # <<>> =>
        LET ls == MetricLines(stats)
            m == Len(subject.MergeRequests)
        IN  /\ stats[1] = "\n"
            /\ Len(ls) = 8 + m
            /\ \A k \in 1..Len(ls) : RepoValue(ls[k]) = RepoValue(ls[1])
            /\ \A k \in 1..7 :
                    /\ MetricName(ls[k]) = CounterMetrics[k]
                    /\ Len(QuotedValues(ls[k])) = 1
                    /\ SampleValue(ls[k]) = FormatInt(CounterValues(subject)[k])
            /\ \A k \in 1..m :
                    /\ MetricName(ls[7 + k]) = MergeRequestMetric
                    /\ QuotedValues(ls[7 + k])
                            = <<RepoValue(ls[1]),
                                subject.MergeRequests[k].State,
                                subject.MergeRequests[k].MergeStatus,
                                subject.MergeRequests[k].TargetBranch>>
                    /\ SampleValue(ls[7 + k]) = <<"1">>
            /\ MetricName(ls[8 + m]) = LastActivityMetric
            /\ Len(QuotedValues(ls[8 + m])) = 1
            /\ SampleValue(ls[8 + m]) = FormatInt(subject.LastActivityAt)

\* A project with two different merge requests and a "/" in its path has
\* been rendered.
RenderingShapeWitness ==
    /\ stats # <<>>
    /\ Len(subject.MergeRequests) = 2
    /\ subject.MergeRequests[1].State = Merged
    /\ subject.MergeRequests[2].State = Opened
    /\ subject.PathWithNamespace = <<"a", "/", "a">>
    /\ Len(MetricLines(stats)) = 10

(***************************************************************************)
(* The place of a request among the project pages                          *)
(***************************************************************************)
\* The number of project-page requests among the first q requests.
OuterBefore(q) == Cardinality({ n \in 1..q : requests[n].run = 0 })

\* The number of projects the first o project pages held.
ProjectsUpTo(o) == Len(Flatten(SubSeq(RunResponses(0), 1, o)))

(***************************************************************************)
(* C12: every merge-request request is made after the response of the      *)
(* project page that holds its project and before the next project-page    *)
(* request; the projects of a page are served in page order, the k-th      *)
(* call of GetMergeRequests being for the k-th project decoded; a call     *)
(* has been fetched to its end before the next call or the next project    *)
(* page is requested, and before GetRepositories returns.                  *)
(***************************************************************************)
FanOutOrdered ==
    /\ \A q \in 1..Len(requests) :
        requests[q].run > 0 =>
            LET o == OuterBefore(q)
                r == requests[q].run
            IN  /\ o >= 1
                /\ o <= Len(RunResponses(0))
                /\ ProjectsUpTo(o - 1) < r
                /\ r <= ProjectsUpTo(o)
                /\ requests[q].id = Served(0)[r].Id
    /\ \A q \in 1..Len(requests) : \A q2 \in (q + 1)..Len(requests) :
        (requests[q].run > 0 /\ requests[q2].run > 0) =>
            /\ requests[q].run <= requests[q2].run
            /\ requests[q].run < requests[q2].run =>
                    FetchedToTheEnd(requests[q].run)
    /\ \A q \in 2..Len(requests) :
        requests[q].run = 0 =>
            \A r \in 1..ProjectsUpTo(OuterBefore(q) - 1) :
                /\ FetchedToTheEnd(r)
                /\ \E n \in 1..(q - 1) : requests[n].run = r
    /\ pc = "done" => \A r \in 1..Len(Served(0)) : FetchedToTheEnd(r)

\* The second project page was requested after the merge requests of the
\* project of the first one.
FanOutWitness ==
    /\ Len(requests) = 3
    /\ requests[1].run = 0
    /\ requests[2].run = 1
    /\ requests[3].run = 0 /\ requests[3].page = 2
    /\ pc = "wait"

(***************************************************************************)
(* C13: the merge requests of a decoded project are assigned exactly       *)
(* once.  A step changes projectsInPage only by decoding a new page, by    *)
(* ending the iteration once every project of the page has had its turn,   *)
(* or by assigning to the project whose turn it is, and to no other, the   *)
(* complete result of its finished pagination, after which its turn is     *)
(* over; the projects already returned to the accumulator stay as they     *)
(* are.                                                                    *)
(***************************************************************************)
AttachStep ==
    /\ pc = "call"
    /\ mpc = "return"
    /\ FetchedToTheEnd(run)
    /\ Len(projectsInPage') = Len(projectsInPage)
    /\ \A k \in 1..Len(projectsInPage) :
            k # i + 1 => projectsInPage'[k] = projectsInPage[k]
    /\ projectsInPage'[i + 1] = Proj(projectsInPage[i + 1].Id, Served(run))
    /\ i' = i + 1

AttachedExactlyOnce ==
    [][ /\ projectsInPage' # projectsInPage =>
            \/ pc = "wait"
            \/ pc = "range" /\ i = Len(projectsInPage) /\ projectsInPage' = <<>>
            \/ AttachStep
        /\ (i' # i /\ pc # "wait") =>
            \/ AttachStep
            \/ pc = "range" /\ i = Len(projectsInPage) /\ i' = 0
        /\ (projects' # projects /\ pc # "done") =>
            /\ Len(projects') >= Len(projects)
            /\ SubSeq(projects', 1, Len(projects)) = projects
            /\ projects' = projects \o projectsInPage
      ]_vars

\* Both projects of a page have had their merge requests attached, and the
\* first one still carries its own.
AttachedWitness ==
    /\ pc = "range"
    /\ i = 2
    /\ projectsInPage = <<Proj(1, <<"mr1">>), Proj(2, <<>>)>>

(***************************************************************************)
(* C14: execution is sequential.  At most one request is outstanding; it   *)
(* is the latest one, made by the loop that is waiting for it; the         *)
(* project pagination and a merge-request pagination never wait at the     *)
(* same time, and while GetMergeRequests runs GetRepositories has no       *)
(* request of its own in flight.                                           *)
(***************************************************************************)
Outstanding == Len(requests) - Len(responses)

SequentialExecution ==
    /\ Outstanding \in {0, 1}
    /\ Outstanding = 1 <=> (pc = "wait" \/ mpc = "wait")
    /\ ~(pc = "wait" /\ mpc = "wait")
    /\ pc = "wait" => (mpc = "idle" /\ requests[Len(requests)].run = 0)
    /\ mpc = "wait" => (pc = "call" /\ requests[Len(requests)].run = run /\ run > 0)
    /\ mpc # "idle" => pc = "call"

\* A merge-request page is awaited after two completed exchanges.
SequentialWitness ==
    /\ pc = "call"
    /\ mpc = "wait"
    /\ Len(requests) = 3
    /\ Len(responses) = 2
    /\ requests[3].page = 3

(***************************************************************************)
(* C15: frame of GetMergeRequests.  From its call to its return a step of  *)
(* GetMergeRequests leaves the accumulator of projects, the outer page     *)
(* index, the page being processed with all its projects (the one it was   *)
(* called on included, merge-request field and all), the range index and   *)
(* its own receiver as they are; it changes its accumulator and its page   *)
(* index only.                                                             *)
(***************************************************************************)
MergeRequestsFrame ==
    [][ /\ (pc = "call" /\ mpc \in {"get", "wait"}) =>
                /\ UNCHANGED outerVars
                /\ receiver' = receiver
                /\ run' = run
        /\ (pc = "range" /\ pc' = "call") =>
                /\ UNCHANGED outerVars
                /\ receiver' = projectsInPage[i + 1]
      ]_vars

\* GetMergeRequests has received a page for a project whose decoded
\* merge-request field is still the decoded one.
MergeRequestsFrameWitness ==
    /\ pc = "call"
    /\ mpc = "get"
    /\ merge_requests = <<"mr1">>
    /\ mpage = 2
    /\ i = 0
    /\ projectsInPage = <<Proj(2, <<"mr0">>)>>

(***************************************************************************)
(* C16: there is no iteration cap.  As long as every response of the       *)
(* cycle is a decoded page announcing a further page, the fetch is         *)
(* neither done nor dead, no call of GetMergeRequests has returned, the    *)
(* running accumulator holds every item served, the items of a page        *)
(* served again included, and each answered request is followed by a       *)
(* further one, up to the number of requests explored.                     *)
(***************************************************************************)
AlwaysAnnounced ==
    \A n \in 1..Len(responses) : AnnouncesPage(responses[n])

NeverEnding ==
    AlwaysAnnounced =>
        /\ pc \in {"get", "wait", "range", "call"}
        /\ mpc # "return"
        /\ run <= 1
        /\ projects = <<>>
        /\ mpc \in {"get", "wait"} =>
                /\ merge_requests = Served(run)
                /\ Len(RunRequests(run)) >= Len(RunResponses(run))
        /\ \A q \in 1..Len(requests) : FollowsSignal(q)

NoIterationCap ==
    /\ []NeverEnding
    /\ \A n \in 0..(MaxRequests - 1) :
            (AlwaysAnnounced /\ Len(requests) = n /\ Len(responses) = n)
                ~> (Len(requests) = n + 1 \/ ~AlwaysAnnounced)

\* GetMergeRequests has requested page 2 twice, was served the same item
\* both times and holds it twice behind the items of page 1; it is about to
\* ask for page 2 once more.
NoIterationCapWitness ==
    /\ AlwaysAnnounced
    /\ mpc = "get"
    /\ mpage = 2
    /\ Len(responses) = 4
    /\ Pages(RunRequests(1)) = <<1, 2, 2>>
    /\ responses[3].items = <<"mr1">>
    /\ responses[4].items = <<"mr1">>
    /\ merge_requests = <<"mr2", "mr3", "mr1", "mr1">>

(***************************************************************************)
(* C18: the accumulator of GetRepositories is the concatenation of the     *)
(* project pages completed so far, every project in it carrying the        *)
(* finished result of its own merge-request pagination; within an          *)
(* invocation it changes only by a whole page being appended to it, and    *)
(* that only once the range loop has served every project of the page.     *)
(***************************************************************************)
\* The number of project pages whose iteration is over.
CompletedPages ==
    IF pc \in {"range", "call"} THEN Len(RunResponses(0)) - 1
    ELSE Len(SelectSeq(RunResponses(0), LAMBDA r : r.kind = "ok"))

AccumulatorHoldsCompletedPages ==
    /\ \E j \in 0..Len(RunResponses(0)) :
            Ids(projects) = Ids(Flatten(SubSeq(RunResponses(0), 1, j)))
    /\ pc \in {"get", "wait", "range", "call", "done"} =>
            Ids(projects) = Ids(Flatten(SubSeq(RunResponses(0), 1, CompletedPages)))
    /\ \A k \in 1..Len(projects) :
            /\ FetchedToTheEnd(k)
            /\ projects[k].MergeRequests = Served(k)

AccumulatorGrowsByPages ==
    /\ []AccumulatorHoldsCompletedPages
    /\ [][ (projects' # projects /\ pc # "done") =>
                /\ pc = "range"
                /\ mpc = "idle"
                /\ i = Len(projectsInPage)
                /\ projects' = projects \o projectsInPage
                /\ run = Len(projects')
                /\ \A k \in 1..Len(projectsInPage) :
                        projectsInPage[k].MergeRequests = Served(Len(projects) + k)
         ]_vars

\* The second project page has been appended behind the first: the
\* accumulator holds the project of page 1, then the one of page 2, each
\* with its own merge requests, and a third page is about to be requested.
AccumulatorWitness ==
    /\ pc = "get"
    /\ page = 3
    /\ Len(RunResponses(0)) = 2
    /\ RunResponses(0)[1].items = <<Proj(2, <<"mr0">>)>>
    /\ RunResponses(0)[2].items = <<Proj(1, NoMergeRequests)>>
    /\ projects = <<Proj(2, <<"mr1">>), Proj(1, <<"mr2", "mr3">>)>>
====
